---- MODULE Spec2Model ----
(***************************************************************************)
(* Model of the tech-pulse pipeline (src/pipeline): the Telegram review    *)
(* bot (bot.py), the GitHub publisher (publish_remote.py), the RSS        *)
(* ingester and rewriter (scraper.py) and the local-git publisher          *)
(* (publish.py).                                                           *)
(*                                                                         *)
(* Strings are sequences of one-character strings, so that slugify, the    *)
(* publisher's identifier sanitising and the button-token split are        *)
(* computed character by character, as the code computes them.             *)
(***************************************************************************)
EXTENDS Integers, Sequences, FiniteSets, TLC

(***************************************************************************)
(* Bounds of the model.                                                    *)
(***************************************************************************)
\* number of /test commands handled in one behaviour
MaxTests == 1
\* number of ingestion runs started in one behaviour (scheduled and manual)
MaxRuns == 2
\* longest feed a source answers with
MaxFeedLen == 2
\* most updates waiting in the dispatcher's queue
MaxQueue == 1
\* longest tag list a rewriter response carries
MaxTags == 8
\* longest location name a rewriter response guesses
MaxNameLen == 2
\* longest title a button token is made for
MaxTitleLen == 3

(***************************************************************************)
(* Character classes (Python str methods and the re module).               *)
(***************************************************************************)
None == "None"

\* the characters titles and identifiers are made of ("e^" is the one
\* non-ASCII letter of the model, an e with an accent)
Chars == {"a", "b", "c", "e", "t", "A", "B", "e^", "0", "1", "2", "6",
          " ", "_", "-", "!"}

\* str.lower() on the characters the model uses
LowerChar(c) == IF c = "A" THEN "a" ELSE IF c = "B" THEN "b" ELSE c

Lower(s) == [i \in 1..Len(s) |-> LowerChar(s[i])]

\* \s of the re module, and what str.strip() removes
Spaces == {" "}

AsciiLower == {"a", "b", "c", "e", "t"}

Digits == {"0", "1", "2", "6"}

\* \w of the re module on str patterns: Unicode letters, digits and "_"
WordChars == AsciiLower \cup Digits \cup {"A", "B", "e^", "_"}

Hyphen == {"-"}

RECURSIVE LStrip(_, _)
LStrip(s, drop) ==
    IF s # <<>> /\ Head(s) \in drop THEN LStrip(Tail(s), drop) ELSE s

RECURSIVE RStrip(_, _)
RStrip(s, drop) ==
    IF s # <<>> /\ s[Len(s)] \in drop
    THEN RStrip(SubSeq(s, 1, Len(s) - 1), drop)
    ELSE s

\* str.strip(): whitespace removed at both ends
Strip(s) == RStrip(LStrip(s, Spaces), Spaces)

\* str.strip("-")
StripHyphens(s) == RStrip(LStrip(s, Hyphen), Hyphen)

\* s[:n]
Take(s, n) == SubSeq(s, 1, IF Len(s) < n THEN Len(s) ELSE n)

\* re.sub(r"[class]+", "-", s): every maximal run of characters of the
\* class becomes one hyphen
RECURSIVE SubRuns(_, _)
SubRuns(s, class) ==
    IF s = <<>> THEN <<>>
    ELSE IF Head(s) \in class
         THEN <<"-">> \o SubRuns(LStrip(s, class), class)
         ELSE <<Head(s)>> \o SubRuns(Tail(s), class)

\* re.sub(r"[^class]", "", s)
Keep(s, class) ==
    LET F[i \in 0..Len(s)] ==
            IF i = 0 THEN <<>>
            ELSE IF s[i] \in class THEN Append(F[i - 1], s[i]) ELSE F[i - 1]
    IN  F[Len(s)]

\* the slug is cut at this many characters
SlugMax == 60

(***************************************************************************)
(* bot.py slugify: lower and strip, drop what is not \w, \s or "-", turn   *)
(* runs of whitespace and "_" into "-", collapse hyphens, cut, strip "-".  *)
(***************************************************************************)
slugifyKeepsUnderscore(text) ==
    LET t1 == Strip(Lower(text))
        t2 == Keep(t1, WordChars \cup Spaces \cup Hyphen)
        t3 == SubRuns(t2, Spaces)
        t4 == SubRuns(t3, Hyphen)
    IN  StripHyphens(Take(t4, SlugMax))

slugify(text) ==
    LET t1 == Strip(Lower(text))
        t2 == Keep(t1, WordChars \cup Spaces \cup Hyphen)
        t3 == SubRuns(t2, Spaces \cup {"_"})
        t4 == SubRuns(t3, Hyphen)
    IN  StripHyphens(Take(t4, SlugMax))

\* strftime("%Y-%m-%d") of the current UTC date; the model covers one day
DateStr == <<"2", "0", "2", "6", "-", "1", "1", "-", "0", "2">>

make_article_id(title) == DateStr \o <<"-">> \o slugify(title)

\* unicodedata.normalize("NFKD", s).encode("ascii", "ignore"): an accented
\* letter keeps its base letter, any other non-ASCII character is dropped
AsciiFold(s) ==
    Keep([i \in 1..Len(s) |-> IF s[i] = "e^" THEN "e" ELSE s[i]], Chars \ {"e^"})

\* publish_remote.py: the identifier as it is used in the document path
\* (lowercased, runs outside [a-z0-9-] turned into "-", hyphens stripped)
SanitizeId(old_id) ==
    StripHyphens(SubRuns(Lower(AsciiFold(old_id)),
                         Chars \ (AsciiLower \cup Digits \cup Hyphen)))

(***************************************************************************)
(* Button tokens (bot.py make_buttons and the split in handle_callback).   *)
(***************************************************************************)
Actions == {"approve", "reject", "edit"}

\* f"{action}_{article_id}"; the action word is one element of the sequence
make_buttons(article_id) ==
    [a \in Actions |-> <<a>> \o <<"_">> \o article_id]

\* data.split("_", 1)
Split1(data) ==
    LET hits == {i \in 1..Len(data) : data[i] = "_"}
    IN  IF hits = {} THEN <<data>>
        ELSE LET k == CHOOSE i \in hits : \A j \in hits : i <= j
             IN  <<SubSeq(data, 1, k - 1), SubSeq(data, k + 1, Len(data))>>

(***************************************************************************)
(* Inputs of the model.                                                    *)
(***************************************************************************)
\* titles the rewriter returns and the reviewer types: two that slugify to
\* the same slug, and one with leading whitespace, "_" and an accent
Titles == { <<"A", "!">>, <<"a">>, <<" ", "e^", "_", "b">> }

\* cmd_test: the identifier is made from one string, the title is another
TestIdTitle == <<"t", " ", "c">>
TestTitle == <<"t", " ", "!", " ", "c">>

VALID_CATEGORIES ==
    {"ai", "gaming", "space", "technology", "medicine", "society", "robotics"}

\* the rewrite of each link's entry in the model: the two titles slugify to
\* the same slug
RewriteTitle == [l \in {"l1", "l2"} |-> IF l = "l1" THEN <<"A", "!">> ELSE <<"a">>]

RewriteCategory == "ai"

\* the "category" of a rewriter response: a known one, a known one in
\* capitals, an unknown one, the empty string, no such key, JSON null
AbsentCategory == "<absent>"

NullCategory == "<null>"

UpstreamCategories == {"ai", "AI", "sports", "", AbsentCategory, NullCategory}

\* reviewers (Telegram user ids)
Users == {"u1", "u2"}

\* the identifiers buttons are made for, and the tokens of those buttons
ButtonIds == {make_article_id(t) : t \in Titles \cup {TestIdTitle}}

Presses == {make_buttons(id)[a] : a \in Actions, id \in ButtonIds}

\* links the feeds carry
Links == {"l1", "l2"}

(***************************************************************************)
(* State.                                                                  *)
(***************************************************************************)
VARIABLES
    pending,          \* bot.py pending: identifier -> candidate
    published,        \* bot.py published: the titles published this session
    editing,          \* bot.py editing: user -> identifier being retitled
    queue,            \* updates that arrived while a handler was awaited
    upd,              \* the update handler the dispatcher is awaiting
    notice,           \* the last message a handler showed, and the update it answers
    repo,             \* the content repository: path -> document
    run,              \* the run_scrape invocations: "cmd" (/scrape), "job" (timer)
    seenFile,         \* seen_articles.json
    runs,             \* ingestion runs started so far
    emitted,          \* history: link -> the runs that emitted it as a new entry
    everSeen,         \* history: every link a complete seen file has held
    githubConfigured, \* GITHUB_TOKEN and GITHUB_REPO are both set
    nextCid,          \* identity of the next candidate object
    tests,            \* /test commands handled so far
    attempted,        \* history: candidates publish_to_github was called for
    succeeded,        \* history: candidates whose publish returned success
    left,             \* history: candidates an approve or a reject removed
    call              \* the function call under study: name, arguments, result

vars == <<pending, published, editing, queue, upd, notice, repo, run, seenFile,
          runs, emitted, everSeen, githubConfigured, nextCid, tests, attempted,
          succeeded, left, call>>

\* what the review handlers and the publisher leave alone
ingestVars == <<run, seenFile, runs, emitted, everSeen>>

\* a dict as a function: removing and setting a key
DictDel(d, k) == [x \in DOMAIN d \ {k} |-> d[x]]

DictSet(d, k, v) == [x \in DOMAIN d \cup {k} |-> IF x = k THEN v ELSE d[x]]

\* a message to the reviewer, in answer to an update (a button token, a
\* typed text, a command)
Shown(text, update) == [text |-> text, re |-> update]

\* history: a candidate (cid) that an approve or a reject took out of the
\* store, and the identifier it had then
Left(cid, article_id, by) == [cid |-> cid, id |-> article_id, by |-> by]

\* existing_sha = None
NoSha == <<>>

\* the result of a publish_to_github call: the dict it returns, or raised
\* when an exception leaves it
NoResult == [raised |-> FALSE, success |-> FALSE, message |-> "", url |-> ""]

Raised == [NoResult EXCEPT !.raised = TRUE]

\* generate_mdx reads data["category"]: KeyError for a dict without the key
RaisedKeyError == [Raised EXCEPT !.message = "KeyError"]

\* the two ways run_scrape is started: the /scrape command, the job queue
Runs == {"cmd", "job"}

IdleRun ==
    [pc |-> "idle", n |-> 0, seen |-> {}, src |-> 0, entries |-> <<>>,
     cands |-> <<>>, k |-> 0, loaded |-> {}, skipped |-> {},
     failed |-> {}, outcome |-> <<>>, resp |-> <<>>]

\* the handler record of an idle dispatcher
IdleUpd ==
    [pc |-> "idle", action |-> None, data |-> <<>>, id |-> <<>>, user |-> None,
     art |-> None, payload |-> None, path |-> None, got |-> 0, sha |-> NoSha,
     gets |-> 0, puts |-> 0, result |-> NoResult]

\* every variable but the call under study
systemVars ==
    <<pending, published, editing, queue, upd, notice, repo, run, seenFile,
      runs, emitted, everSeen, githubConfigured, nextCid, tests, attempted,
      succeeded, left>>

\* a function call with its arguments and its result
Call(fn, arg, ret) == [fn |-> fn, arg |-> arg, ret |-> ret]

\* no function call is under study
NoCall == [fn |-> None, arg |-> <<>>, ret |-> <<>>]

\* what every specification starts with: empty stores, an idle dispatcher
InitBot ==
    /\ pending = <<>>
    /\ published = <<>>
    /\ editing = <<>>
    /\ queue = <<>>
    /\ upd = IdleUpd
    /\ notice = Shown("none", <<>>)
    /\ repo = <<>>
    /\ tests = 0
    /\ attempted = {}
    /\ succeeded = {}
    /\ left = {}
    /\ call = NoCall

(***************************************************************************)
(* The dispatcher.  main() builds the Application without                  *)
(* concurrent_updates and registers every handler with the default         *)
(* block=True, so the update fetcher awaits one handler to its end before  *)
(* it takes the next update; job-queue callbacks run as tasks of their own.*)
(***************************************************************************)
\* with concurrent_updates(True) a handler would start whatever is awaited
DispatcherConcurrent == TRUE

DispatcherFree == upd.pc = "idle"

(***************************************************************************)
(* cmd_test: store the test candidate under its identifier and present it. *)
(***************************************************************************)
test_article ==
    [cid |-> nextCid, id |-> make_article_id(TestIdTitle), title |-> TestTitle,
     category |-> "technology", link |-> "test"]

cmd_test ==
    /\ DispatcherFree
    /\ tests < MaxTests
    /\ pending' = DictSet(pending, test_article.id, test_article)
    /\ nextCid' = nextCid + 1
    /\ tests' = tests + 1
    /\ notice' = Shown("candidate", <<"/test">>)
    /\ UNCHANGED <<published, editing, upd, repo, githubConfigured,
                   attempted, succeeded, left>>
    /\ UNCHANGED ingestVars

(***************************************************************************)
(* handle_callback, up to its first suspension that matters: answer the    *)
(* query, split the token, look the candidate up and branch.               *)
(***************************************************************************)
\* lines 205-220: the payload handed to the publisher is a new dict
article_payload(article_id, article) ==
    [id |-> article_id, title |-> article.title,
     category |-> article.category, link |-> article.link]

\* line 227: published.append(article["title"])
PublishedNoAppend(list, title) == list

PublishedAfter(list, title) == Append(list, title)

\* line 228: del pending[article_id] after a successful publish
ApprovedStoreKept(store, article_id) == store

ApprovedStore(store, article_id) == DictDel(store, article_id)

\* line 243: del pending[article_id] on a reject
RejectedStoreKept(store, article_id) == store

RejectedStore(store, article_id) == DictDel(store, article_id)

\* lines 194-196: the notice for a press whose identifier is not stored
StaleCallbackEdits(data) ==
    /\ notice' = Shown("stale", data)
    /\ editing' = DictSet(editing, "u1", Split1(data)[2])
    /\ UNCHANGED <<pending, published, upd, attempted, left>>

StaleCallback(data) ==
    /\ notice' = Shown("stale", data)
    /\ UNCHANGED <<pending, published, editing, upd, attempted, left>>

\* lines 198-224: show "Publishing", build the payload, call the publisher
\* in the executor; sendOk = FALSE is edit_message_text raising
ApproveStart(data, article_id, article) ==
    /\ \E sendOk \in BOOLEAN :
          IF sendOk
          THEN /\ notice' = Shown("publishing", data)
               /\ upd' = [IdleUpd EXCEPT !.pc = "publish", !.action = "approve",
                                         !.id = article_id, !.art = article,
                                         !.data = data,
                                         !.payload = article_payload(article_id, article)]
               /\ attempted' = attempted \cup {article.cid}
          ELSE UNCHANGED <<upd, notice, attempted>>
    /\ UNCHANGED <<pending, published, editing, left>>

\* lines 241-247
Reject(data, article_id) ==
    /\ pending' = RejectedStore(pending, article_id)
    /\ notice' = Shown("rejected", data)
    /\ left' = left \cup {Left(pending[article_id].cid, article_id, "reject")}
    /\ UNCHANGED <<published, editing, upd, attempted>>

\* lines 249-255
EditStartKeepsFirst(data, user, article_id) ==
    /\ editing' = IF user \in DOMAIN editing THEN editing
                  ELSE DictSet(editing, user, article_id)
    /\ notice' = Shown("editing", data)
    /\ UNCHANGED <<pending, published, upd, attempted, left>>

EditStart(data, user, article_id) ==
    /\ editing' = DictSet(editing, user, article_id)
    /\ notice' = Shown("editing", data)
    /\ UNCHANGED <<pending, published, upd, attempted, left>>

handle_callback(user, data) ==
    /\ DispatcherFree
    /\ LET parts == Split1(data)
       IN  /\ Len(parts) = 2
           /\ LET article_id == parts[2]
              IN  IF article_id \notin DOMAIN pending
                  THEN StaleCallback(data)
                  ELSE CASE parts[1] = <<"approve">> ->
                                ApproveStart(data, article_id, pending[article_id])
                         [] parts[1] = <<"reject">> -> Reject(data, article_id)
                         [] parts[1] = <<"edit">> -> EditStart(data, user, article_id)
                         [] OTHER -> UNCHANGED <<pending, published, editing,
                                                 upd, notice, attempted, left>>
    /\ UNCHANGED <<repo, githubConfigured, nextCid, tests, succeeded>>
    /\ UNCHANGED ingestVars

(***************************************************************************)
(* publish_remote.py publish_to_github.  It runs in the executor while the *)
(* handler awaits it: one step up to the existence check (GET), one for    *)
(* the create-or-update request (PUT).                                     *)
(***************************************************************************)
\* lines 118-122: a category outside the fixed set becomes the default
ValidCategory(category) ==
    IF category \in VALID_CATEGORIES THEN category ELSE "technology"

\* lines 125-133: the identifier generated for an article that has none
GeneratedId(title) ==
    LET slug == SubRuns(AsciiFold(Lower(title)),
                        Chars \ (AsciiLower \cup Digits))
    IN  DateStr \o <<"-">> \o RStrip(Take(StripHyphens(slug), SlugMax), Hyphen)

\* lines 119-121: the local variable category, from which the path is made
PathCategory(article) ==
    ValidCategory(IF article.category = AbsentCategory THEN "technology"
                  ELSE article.category)

\* lines 118-146: the article as the publisher rewrites it before use; the
\* category key is assigned only inside the if of line 120, so a dict
\* without the key stays without it
Normalised(article) ==
    [article EXCEPT !.category = IF article.category = AbsentCategory
                                 THEN AbsentCategory
                                 ELSE ValidCategory(article.category),
                    !.id = IF article.id = <<>> THEN GeneratedId(article.title)
                           ELSE SanitizeId(article.id)]

\* lines 122, 133, 142 and 146 assign to keys of the dict the publisher was
\* given; that dict is the payload built for the call (bot.py 205-220), so
\* the candidate in the store is another object and keeps its fields
StoredAliased(store, article_id, article) ==
    IF article_id \in DOMAIN store
    THEN DictSet(store, article_id,
                 [store[article_id] EXCEPT !.id = article.id,
                                           !.category = article.category])
    ELSE store

StoredAfterPublisher(store, article_id, article) == store

\* generate_mdx: the front matter the document carries
generate_mdx(data) ==
    [id |-> data.id, title |-> data.title, category |-> data.category,
     link |-> data.link, approved |-> TRUE]

\* line 150: content/{category}/{id}.mdx
FilePath(category, id) == <<"content", category, id>>

\* the concurrency token of a stored document: git's blob hash of it
Sha(doc) == <<"sha", doc>>

\* get_existing_file_sha: the token of a 200 answer, None for any other
NoExistingSha(status, file_path) == NoSha

get_existing_file_sha(status, file_path) ==
    IF status = 200 THEN Sha(repo[file_path]) ELSE NoSha

\* the answer of the contents API to a PUT: it writes when the token matches
\* the stored document, or when there is neither a document nor a token
PutAccepted(file_path, sha) ==
    IF file_path \in DOMAIN repo THEN sha = Sha(repo[file_path]) ELSE sha = NoSha

\* lines 169-184: the result dict
PublishResult(accepted, existing_sha) ==
    IF accepted
    THEN [raised |-> FALSE, success |-> TRUE,
          message |-> IF existing_sha # NoSha THEN "Updated" ELSE "Published",
          url |-> "html_url"]
    ELSE [raised |-> FALSE, success |-> FALSE, message |-> "GitHub API error",
          url |-> ""]

\* lines 113-116: the token and the repository name are both set
CredentialsUnchecked(configured) == TRUE

HasCredentials(configured) == configured

\* lines 113-153: the configuration check, the normalising, the GET
\* (status 0 stands for requests.get raising)
PublishGet ==
    /\ UNCHANGED <<queue, call>>
    /\ upd.pc = "publish"
    /\ IF ~HasCredentials(githubConfigured)
       THEN /\ upd' = [upd EXCEPT !.pc = "pub_done",
                          !.result = [raised |-> FALSE, success |-> FALSE,
                                      message |-> "not set", url |-> ""]]
            /\ UNCHANGED pending
       ELSE LET article == Normalised(upd.payload)
                file_path == FilePath(PathCategory(upd.payload), article.id)
            IN  \E status \in {200, 404, 500, 0} :
                   /\ status = 200 => file_path \in DOMAIN repo
                   /\ status = 404 => file_path \notin DOMAIN repo
                   /\ pending' = StoredAfterPublisher(pending, upd.id, article)
                   /\ upd' = IF article.category = AbsentCategory
                             THEN [upd EXCEPT !.pc = "pub_done", !.payload = article,
                                              !.result = RaisedKeyError]
                             ELSE IF status = 0
                             THEN [upd EXCEPT !.pc = "pub_done", !.payload = article,
                                              !.path = file_path, !.gets = @ + 1,
                                              !.result = Raised]
                             ELSE [upd EXCEPT !.pc = "put", !.payload = article,
                                              !.path = file_path, !.got = status,
                                              !.gets = @ + 1,
                                              !.sha = get_existing_file_sha(status, file_path)]
    /\ UNCHANGED <<published, editing, notice, repo, githubConfigured,
                   nextCid, tests, attempted, succeeded, left>>
    /\ UNCHANGED ingestVars

\* lines 167-184: one requests.put, then the result dict is returned,
\* whatever the answer; there is no loop around the request
AfterPutRetry(accepted, puts) ==
    IF ~accepted /\ puts = 0 THEN "put" ELSE "pub_done"

AfterPut(accepted, puts) == "pub_done"

\* lines 155-184: the PUT and the result (status 0 stands for requests.put
\* raising, 500 for an answer that is an error whatever the request)
PublishPut ==
    /\ UNCHANGED <<queue, call>>
    /\ upd.pc = "put"
    /\ \E status \in {200, 500, 0} :
          LET accepted == status = 200 /\ PutAccepted(upd.path, upd.sha)
          IN  /\ repo' = IF accepted
                         THEN DictSet(repo, upd.path, generate_mdx(upd.payload))
                         ELSE repo
              /\ upd' = [upd EXCEPT !.pc = AfterPut(accepted, upd.puts),
                                    !.puts = @ + 1,
                                    !.result = IF status = 0 THEN Raised
                                               ELSE PublishResult(accepted, upd.sha)]
              /\ succeeded' = IF accepted THEN succeeded \cup {upd.art.cid}
                              ELSE succeeded
    /\ UNCHANGED <<pending, published, editing, notice, githubConfigured,
                   nextCid, tests, attempted, left>>
    /\ UNCHANGED ingestVars

(***************************************************************************)
(* handle_callback resumed with the publisher's result (lines 226-239).    *)
(* An exception of the publisher leaves the handler at line 224: nothing   *)
(* after it runs and no message is sent.                                   *)
(***************************************************************************)
ApproveFinish ==
    /\ UNCHANGED <<queue, call>>
    /\ upd.pc = "pub_done"
    /\ upd' = IdleUpd
    /\ IF upd.result.raised
       THEN UNCHANGED <<pending, published, notice, left>>
       ELSE IF upd.result.success
       THEN /\ published' = PublishedAfter(published, upd.art.title)
            /\ IF upd.id \in DOMAIN pending
               THEN /\ pending' = ApprovedStore(pending, upd.id)
                    /\ notice' = Shown("published", upd.data)
                    /\ left' = left \cup {Left(upd.art.cid, upd.id, "approve")}
               ELSE UNCHANGED <<pending, notice, left>>
       ELSE /\ notice' = Shown("failed", upd.data)
            /\ UNCHANGED <<pending, published, left>>
    /\ UNCHANGED <<editing, repo, githubConfigured, nextCid, tests,
                   attempted, succeeded>>
    /\ UNCHANGED ingestVars

(***************************************************************************)
(* handle_message (lines 258-283): the free text of a reviewer with an     *)
(* open edit session is the new title.                                     *)
(***************************************************************************)
\* lines 270-277: retitle, recompute the identifier, delete and reinsert
RetitleKeepOld(store, article_id, text) ==
    LET new_title == Strip(text)
        new_id == make_article_id(new_title)
        article == [store[article_id] EXCEPT !.title = new_title, !.id = new_id]
    IN  DictSet(store, new_id, article)

Retitle(store, article_id, text) ==
    LET new_title == Strip(text)
        new_id == make_article_id(new_title)
        article == [store[article_id] EXCEPT !.title = new_title, !.id = new_id]
    IN  DictSet(DictDel(store, article_id), new_id, article)

\* line 263: editing.pop(user_id)
SessionKept(sessions, user) == sessions

SessionClosed(sessions, user) == DictDel(sessions, user)

handle_message(user, text) ==
    /\ DispatcherFree
    /\ IF user \in DOMAIN editing
       THEN /\ editing' = SessionClosed(editing, user)
            /\ IF editing[user] \in DOMAIN pending
               THEN /\ pending' = Retitle(pending, editing[user], text)
                    /\ notice' = Shown("retitled", text)
               ELSE /\ notice' = Shown("gone", text)
                    /\ UNCHANGED pending
       ELSE UNCHANGED <<editing, pending, notice>>
    /\ UNCHANGED <<published, upd, repo, githubConfigured, nextCid, tests,
                   attempted, succeeded, left>>
    /\ UNCHANGED ingestVars

(***************************************************************************)
(* scraper.py scrape_feeds, as get_candidates runs it in the executor.     *)
(* The only state two runs share is seen_articles.json: load_seen reads    *)
(* it, save_seen truncates it (open "w") and then writes it.               *)
(***************************************************************************)
\* rss_sources.json: the configured sources, in order
NumSources == 2

\* getattr(entry, "link", ""): a feed is the list of its entries' links,
\* "" for an entry without one
RECURSIVE SeqsUpTo(_, _)
SeqsUpTo(S, n) ==
    IF n = 0 THEN {<<>>}
    ELSE LET shorter == SeqsUpTo(S, n - 1)
         IN  shorter \cup {Append(q, x) : q \in shorter, x \in S}

Feeds == SeqsUpTo(Links \cup {""}, MaxFeedLen)

\* load_seen: the set in the file; a file that does not parse gives set()
load_seen == IF seenFile.valid THEN seenFile.links ELSE {}

\* line 138: the entries scrape_feeds skips
SkippedNoLink(link, seen) == link = ""

Skipped(link, seen) == link = "" \/ link \in seen

\* line 154: seen.add(link)
MarkSeenNot(seen, link) == seen

MarkSeen(seen, link) == seen \cup {link}

\* lines 136-154 for one feed: <<seen, new_entries>> after its entries
RECURSIVE ScanFeed(_, _, _, _)
ScanFeed(feed, source, seen, new_entries) ==
    IF feed = <<>> THEN <<seen, new_entries>>
    ELSE IF Skipped(Head(feed), seen)
         THEN ScanFeed(Tail(feed), source, seen, new_entries)
         ELSE ScanFeed(Tail(feed), source, MarkSeen(seen, Head(feed)),
                       Append(new_entries, [link |-> Head(feed), source |-> source]))

\* history: the links of a feed that line 138 found in the seen set
RECURSIVE SkippedAsSeen(_, _)
SkippedAsSeen(feed, seen) ==
    IF feed = <<>> THEN {}
    ELSE IF Skipped(Head(feed), seen)
         THEN (IF Head(feed) \in seen THEN {Head(feed)} ELSE {})
              \cup SkippedAsSeen(Tail(feed), seen)
         ELSE SkippedAsSeen(Tail(feed), MarkSeen(seen, Head(feed)))

\* the links of a list of entries
LinksOf(entries) == {entries[i].link : i \in 1..Len(entries)}

\* lines 129-134 and the end of the source loop: a source whose fetch raised
\* is logged and skipped (continue); after the last source comes save_seen
AfterSourceAbort(src, fetched) ==
    IF ~fetched THEN "done" ELSE IF src = NumSources THEN "save" ELSE "fetch"

AfterSource(src, fetched) == IF src = NumSources THEN "save" ELSE "fetch"

\* bot.py cmd_scrape: reply, then run_scrape inside the handler
cmd_scrape ==
    /\ UNCHANGED <<queue, call>>
    /\ DispatcherFree
    /\ runs < MaxRuns
    /\ run["cmd"].pc = "idle"
    /\ upd' = [IdleUpd EXCEPT !.pc = "scrape"]
    /\ notice' = Shown("scraping", <<"/scrape">>)
    /\ run' = [run EXCEPT !["cmd"].pc = "load", !["cmd"].n = runs + 1]
    /\ runs' = runs + 1
    /\ UNCHANGED <<pending, published, editing, repo, seenFile, emitted, everSeen,
                   githubConfigured, nextCid, tests, attempted, succeeded, left>>

\* bot.py scheduled_scrape: the job queue starts the job when its previous
\* instance has ended
scheduled_scrape ==
    /\ UNCHANGED <<queue, call>>
    /\ runs < MaxRuns
    /\ run["job"].pc = "idle"
    /\ run' = [run EXCEPT !["job"].pc = "load", !["job"].n = runs + 1]
    /\ runs' = runs + 1
    /\ UNCHANGED <<pending, published, editing, upd, notice, repo, seenFile,
                   emitted, everSeen, githubConfigured, nextCid, tests, attempted,
                   succeeded, left>>

\* lines 119-121
LoadSeen(r) ==
    /\ UNCHANGED <<queue, call>>
    /\ run[r].pc = "load"
    /\ run' = [run EXCEPT ![r].pc = "fetch", ![r].seen = load_seen, ![r].src = 1,
                          ![r].entries = <<>>, ![r].loaded = load_seen]
    /\ UNCHANGED <<pending, published, editing, upd, notice, repo, seenFile, runs,
                   emitted, everSeen, githubConfigured, nextCid, tests, attempted,
                   succeeded, left>>

\* lines 123-154 for one source: feedparser.parse raises (fetched = FALSE),
\* or it answers with a feed
FetchSource(r) ==
    /\ UNCHANGED <<queue, call>>
    /\ run[r].pc = "fetch"
    /\ \E fetched \in BOOLEAN, feed \in Feeds :
          /\ ~fetched => feed = <<>>
          /\ LET after == ScanFeed(feed, run[r].src, run[r].seen, run[r].entries)
                 new == LinksOf(after[2]) \ LinksOf(run[r].entries)
             IN  /\ run' = [run EXCEPT ![r].seen = after[1], ![r].entries = after[2],
                                       ![r].src = @ + 1,
                                       ![r].skipped = @ \cup SkippedAsSeen(feed, run[r].seen),
                                       ![r].failed = IF fetched THEN @
                                                     ELSE @ \cup {run[r].src},
                                       ![r].pc = AfterSource(run[r].src, fetched)]
                 /\ emitted' = [l \in Links |-> IF l \in new
                                                THEN emitted[l] \cup {run[r].n}
                                                ELSE emitted[l]]
    /\ UNCHANGED <<pending, published, editing, upd, notice, repo, seenFile, runs,
                   everSeen, githubConfigured, nextCid, tests, attempted, succeeded, left>>

\* save_seen, open(SEEN_FILE, "w"): the file is empty until the dump
SaveOpen(r) ==
    /\ UNCHANGED <<queue, call>>
    /\ run[r].pc = "save"
    /\ seenFile' = [valid |-> FALSE, links |-> {}]
    /\ run' = [run EXCEPT ![r].pc = "dump"]
    /\ UNCHANGED <<pending, published, editing, upd, notice, repo, runs, emitted,
                   everSeen, githubConfigured, nextCid, tests, attempted, succeeded, left>>

\* save_seen, json.dump(sorted(seen)) and close: the file holds this run's
\* set; when another writer's bytes are in the file, what is left may be
\* this run's text followed by the tail of the other's, which does not parse
\* scrape_feeds returns new_entries (line 159); its other locals are gone
SaveDump(r) ==
    /\ UNCHANGED <<queue, call>>
    /\ run[r].pc = "dump"
    /\ \E clean \in BOOLEAN :
          /\ ~clean => seenFile.valid
          /\ seenFile' = IF clean THEN [valid |-> TRUE, links |-> run[r].seen]
                         ELSE [valid |-> FALSE, links |-> {}]
          /\ everSeen' = IF clean THEN everSeen \cup run[r].seen ELSE everSeen
    /\ run' = [run EXCEPT ![r] = [IdleRun EXCEPT !.pc = "rewrite",
                                                 !.entries = run[r].entries,
                                                 !.failed = run[r].failed]]
    /\ UNCHANGED <<pending, published, editing, upd, notice, repo, runs, emitted,
                   githubConfigured, nextCid, tests, attempted, succeeded, left>>

(***************************************************************************)
(* scraper.py get_candidates: process_article for every new entry, in      *)
(* order; an entry whose rewrite fails gives no candidate.                 *)
(***************************************************************************)
\* str.lower() on the category words of the model
LowerCategory(word) == IF word = "AI" THEN "ai" ELSE word

\* lines 304-306: result.get("category", "technology").lower(), and the
\* default for a word outside the fixed set
CategoryUnchecked(raw) ==
    LowerCategory(IF raw = AbsentCategory THEN "technology" ELSE raw)

CategoryOf(raw) ==
    LET category == LowerCategory(IF raw = AbsentCategory THEN "technology" ELSE raw)
    IN  IF category \in VALID_CATEGORIES THEN category ELSE "technology"

\* process_article returns a candidate: the service answered with JSON that
\* parses (ok) and whose category is a string; None.lower() at line 304
\* raises, and the except clause at line 339 returns None
RewriteOk(ok, raw) == ok /\ raw # NullCategory

\* what process_article returns for an entry: None, or a candidate with the
\* title and the (validated) category of the response
process_article(entry, ok, raw, cid) ==
    IF RewriteOk(ok, raw)
    THEN <<[cid |-> cid, id |-> <<>>, title |-> RewriteTitle[entry.link],
            category |-> CategoryOf(raw), link |-> entry.link]>>
    ELSE <<>>

\* lines 360-369: the candidates of the entries whose rewrite succeeded
\* (outcome[i] tells whether the service answers for the i-th entry with
\* JSON that parses, resp[i] is the category of that answer)
RECURSIVE CandidatesUntilFailure(_, _, _, _)
CandidatesUntilFailure(entries, outcome, resp, cid) ==
    IF entries = <<>> THEN <<>>
    ELSE LET i == Len(outcome) - Len(entries) + 1
             candidate == process_article(Head(entries), outcome[i], resp[i], cid)
         IN  IF candidate = <<>> THEN <<>>
             ELSE candidate \o CandidatesUntilFailure(Tail(entries), outcome, resp,
                                                      cid + 1)

RECURSIVE Candidates(_, _, _, _)
Candidates(entries, outcome, resp, cid) ==
    IF entries = <<>> THEN <<>>
    ELSE LET i == Len(outcome) - Len(entries) + 1
             candidate == process_article(Head(entries), outcome[i], resp[i], cid)
         IN  candidate \o Candidates(Tail(entries), outcome, resp,
                                     cid + Len(candidate))

\* get_candidates after scrape_feeds, and run_scrape up to its first
\* candidate (lines 293-306); sendOk = FALSE is send_message raising, which
\* the except clause of run_scrape catches
Rewrite(r) ==
    /\ UNCHANGED <<queue, call>>
    /\ run[r].pc = "rewrite"
    /\ \E outcome \in [1..Len(run[r].entries) -> BOOLEAN],
          resp \in [1..Len(run[r].entries) -> UpstreamCategories],
          sendOk \in BOOLEAN :
          LET candidates == Candidates(run[r].entries, outcome, resp, nextCid)
          IN  /\ \A i \in DOMAIN outcome : ~outcome[i] => resp[i] = AbsentCategory
              /\ nextCid' = nextCid + Len(candidates)
              /\ run' = [run EXCEPT ![r].cands = candidates, ![r].k = 1,
                                    ![r].outcome = outcome, ![r].resp = resp,
                                    ![r].entries = <<>>,
                                    ![r].pc = IF candidates = <<>> \/ ~sendOk
                                              THEN "done" ELSE "present"]
    /\ UNCHANGED <<pending, published, editing, upd, notice, repo, seenFile, runs,
                   emitted, everSeen, githubConfigured, tests, attempted, succeeded, left>>

\* lines 308-321 for one candidate: give it an identifier, store it, send it
Present(r) ==
    /\ UNCHANGED <<queue, call>>
    /\ run[r].pc = "present"
    /\ \E sendOk \in BOOLEAN :
          LET c == run[r].cands[run[r].k]
              article_id == IF c.id # <<>> THEN c.id ELSE make_article_id(c.title)
              candidate == [c EXCEPT !.id = article_id]
          IN  /\ pending' = DictSet(pending, article_id, candidate)
              /\ run' = [run EXCEPT ![r].k = @ + 1,
                                    ![r].pc = IF ~sendOk \/ run[r].k = Len(run[r].cands)
                                              THEN "done" ELSE "present"]
    /\ UNCHANGED <<published, editing, upd, notice, repo, seenFile, runs, emitted,
                   everSeen, githubConfigured, nextCid, tests, attempted, succeeded, left>>

\* run_scrape returns; the /scrape handler ends with it
EndRun(r) ==
    /\ UNCHANGED <<queue, call>>
    /\ run[r].pc = "done"
    /\ run' = [run EXCEPT ![r] = IdleRun]
    /\ upd' = IF r = "cmd" THEN IdleUpd ELSE upd
    /\ UNCHANGED <<pending, published, editing, notice, repo, seenFile, runs,
                   emitted, everSeen, githubConfigured, nextCid, tests, attempted,
                   succeeded, left>>

(***************************************************************************)
(* Specifications.  The review handlers never touch seen_articles.json or  *)
(* a run's locals, and an ingestion run touches the stores of the bot only *)
(* when it presents its candidates, so the system is checked in two parts. *)
(*                                                                         *)
(* Spec: the review workflow.  The scheduled job has come back from        *)
(* get_candidates with a batch and presents it while the reviewer's        *)
(* updates are handled.                                                    *)
(*                                                                         *)
(* SpecIngest: the ingestion runs, the scheduled one and the /scrape one,  *)
(* through scrape_feeds, with the rewriter down: they present nothing.     *)
(***************************************************************************)
\* the batches get_candidates can return: the candidates of the links'
\* entries, in feed order, less the entries whose rewrite failed
Batches ==
    LET entries == <<[link |-> "l1", source |-> 1], [link |-> "l2", source |-> 1]>>
        resp == [i \in 1..2 |-> RewriteCategory]
    IN  {Candidates(entries, outcome, resp, 1) : outcome \in [1..2 -> BOOLEAN]}
        \ {<<>>}

Init ==
    /\ InitBot
    /\ githubConfigured = TRUE
    /\ \E batch \in Batches :
          /\ run = [r \in Runs |->
                      IF r = "job"
                      THEN [IdleRun EXCEPT !.pc = "present", !.cands = batch,
                                           !.k = 1]
                      ELSE IdleRun]
          /\ seenFile = [valid |-> TRUE, links |-> LinksOf(batch)]
          /\ emitted = [l \in Links |-> IF l \in LinksOf(batch) THEN {1} ELSE {}]
          /\ everSeen = LinksOf(batch)
          /\ nextCid = Len(batch) + 1
    /\ runs = 1

\* the reviewer whose updates the specifications hand to the handlers
Reviewer == "u1"

\* an update that finds the dispatcher free and no update before it is
\* handled as it comes
OnTest == queue = <<>> /\ cmd_test /\ UNCHANGED <<queue, call>>

OnCallback ==
    /\ queue = <<>>
    /\ \E data \in Presses : handle_callback(Reviewer, data)
    /\ UNCHANGED <<queue, call>>

OnMessage ==
    /\ queue = <<>>
    /\ \E text \in Titles : handle_message(Reviewer, text)
    /\ UNCHANGED <<queue, call>>

Next ==
    \/ OnCallback
    \/ PublishGet
    \/ PublishPut
    \/ ApproveFinish
    \/ OnMessage
    \/ Present("job")
    \/ EndRun("job")

Spec == Init /\ [][Next]_vars

(***************************************************************************)
(* SpecQueue: the review workflow with the dispatcher's update queue.  A   *)
(* button press or a message that arrives while a handler is awaited waits *)
(* in the queue, and is handled, in arrival order, when the handler ended. *)
(***************************************************************************)
\* the state after start-up: nothing stored, no run started, and the seen
\* file as earlier sessions left it
InitIdle ==
    /\ InitBot
    /\ githubConfigured = TRUE
    /\ run = [r \in Runs |-> IdleRun]
    /\ seenFile \in {[valid |-> TRUE, links |-> L] : L \in SUBSET Links}
    /\ emitted = [l \in Links |-> {}]
    /\ everSeen = seenFile.links
    /\ runs = 0
    /\ nextCid = 1

\* start-up of the review workflow alone; the publisher's credentials may
\* be missing from the environment
InitQueue ==
    /\ InitBot
    /\ githubConfigured \in BOOLEAN
    /\ run = [r \in Runs |-> IdleRun]
    /\ seenFile = [valid |-> TRUE, links |-> {}]
    /\ emitted = [l \in Links |-> {}]
    /\ everSeen = {}
    /\ runs = 0
    /\ nextCid = 1

Updates ==
    {[kind |-> "callback", user |-> Reviewer, data |-> d] : d \in Presses}
    \cup {[kind |-> "message", user |-> Reviewer, data |-> t] : t \in Titles}

Arrive ==
    /\ ~DispatcherFree
    /\ Len(queue) < MaxQueue
    /\ \E u \in Updates : queue' = Append(queue, u)
    /\ UNCHANGED <<pending, published, editing, upd, notice, repo, run, seenFile,
                   runs, emitted, everSeen, githubConfigured, nextCid, tests,
                   attempted, succeeded, left, call>>

TakeUpdate ==
    /\ queue # <<>>
    /\ queue' = Tail(queue)
    /\ UNCHANGED call
    /\ IF Head(queue).kind = "callback"
       THEN handle_callback(Head(queue).user, Head(queue).data)
       ELSE handle_message(Head(queue).user, Head(queue).data)

NextQueue ==
    \/ OnTest
    \/ OnCallback
    \/ OnMessage
    \/ Arrive
    \/ TakeUpdate
    \/ PublishGet
    \/ PublishPut
    \/ ApproveFinish

SpecQueue == InitQueue /\ [][NextQueue]_vars

\* get_candidates when the rewriter answers for no entry: the run has no
\* candidate to present
RewriteNone(r) ==
    Rewrite(r) /\ \A i \in DOMAIN run'[r].outcome : ~run'[r].outcome[i]

\* the source loop when every fetch answers (a source that cannot be fetched
\* adds to the seen set and to the entries what an empty feed adds: nothing)
FetchAnswered(r) == FetchSource(r) /\ run'[r].failed = {}

NextIngest ==
    \/ cmd_scrape
    \/ scheduled_scrape
    \/ \E r \in Runs : LoadSeen(r)
    \/ \E r \in Runs : FetchAnswered(r)
    \/ \E r \in Runs : SaveOpen(r)
    \/ \E r \in Runs : SaveDump(r)
    \/ \E r \in Runs : RewriteNone(r)
    \/ \E r \in Runs : EndRun(r)

SpecIngest == InitIdle /\ [][NextIngest]_vars

(***************************************************************************)
(* SpecRun: /scrape runs one after the other, each from load_seen to the   *)
(* end of its presentation, with whatever the feeds and the rewriter       *)
(* answer.                                                                 *)
(***************************************************************************)
NextRun ==
    \/ cmd_scrape
    \/ LoadSeen("cmd")
    \/ FetchSource("cmd")
    \/ SaveOpen("cmd")
    \/ SaveDump("cmd")
    \/ Rewrite("cmd")
    \/ Present("cmd")
    \/ EndRun("cmd")

SpecRun == InitIdle /\ [][NextRun]_vars

(***************************************************************************)
(* publish_remote.py run as a program (lines 228-264): read_input loads a  *)
(* JSON article and publish_to_github is called with that dict.            *)
(***************************************************************************)
\* the articles handed to the program: with a category of the set, an
\* unknown one, null or no category key; with an identifier or none
CliArticles ==
    {[id |-> id, title |-> title, category |-> category, link |-> "cli"] :
        id \in {<<>>, make_article_id(<<"a">>)},
        title \in {<<"a">>, <<" ", "e^", "_", "b">>},
        category \in {"ai", "sports", NullCategory, AbsentCategory}}

\* lines 259-260: data = read_input(); publish_to_github(data)
cli_publish ==
    /\ call = NoCall
    /\ upd.pc = "idle"
    /\ \E data \in CliArticles :
          /\ call' = Call("publish_to_github", data, NoResult)
          /\ upd' = [IdleUpd EXCEPT !.pc = "publish", !.action = "cli",
                                    !.art = [cid |-> 0, id |-> data.id,
                                             title |-> data.title,
                                             category |-> data.category,
                                             link |-> data.link],
                                    !.payload = data]
    /\ UNCHANGED <<pending, published, editing, queue, notice, repo,
                   githubConfigured, nextCid, tests, attempted, succeeded, left>>
    /\ UNCHANGED ingestVars

\* lines 261-264: print the message and exit (an exception of the call ends
\* the program with a traceback)
cli_exit ==
    /\ upd.pc = "pub_done"
    /\ upd.action = "cli"
    /\ call' = [call EXCEPT !.ret = upd.result]
    /\ upd' = [upd EXCEPT !.pc = "exit"]
    /\ UNCHANGED <<pending, published, editing, queue, notice, repo,
                   githubConfigured, nextCid, tests, attempted, succeeded, left>>
    /\ UNCHANGED ingestVars

NextPublisher ==
    \/ cli_publish
    \/ PublishGet
    \/ PublishPut
    \/ cli_exit

SpecPublisher == InitIdle /\ [][NextPublisher]_vars

(***************************************************************************)
(* publish.py, the local-git publisher, run as a program (lines 152-156).  *)
(* What the project directory, the add-article script and git answer is    *)
(* the input of a call.                                                    *)
(***************************************************************************)
\* a subprocess.run: return code 0, another return code, TimeoutExpired
RunOutcomes == {"ok", "failed", "timeout"}

\* the calls of the model: the push argument, GIT_AUTO_PUSH, whether the
\* project directory exists, and the outcome of each command if it is run
LocalPublishes ==
    [push : BOOLEAN, auto : BOOLEAN, dir : BOOLEAN, script : RunOutcomes,
     add : RunOutcomes, commit : RunOutcomes, gitpush : RunOutcomes]

\* lines 91-94 and 105-108: a return code other than 0 of git commit or of
\* git push is printed as a warning and the function goes on; only an
\* exception (lines 113-118) ends it
GitStepEnds(outcome) == outcome = "timeout"

\* lines 39-118: the value publish_article returns
publish_article(a) ==
    IF ~a.dir THEN FALSE
    ELSE IF a.script # "ok" THEN FALSE
    ELSE IF a.push /\ a.auto
         THEN ~(\/ a.add = "timeout"
                \/ GitStepEnds(a.commit)
                \/ GitStepEnds(a.gitpush))
         ELSE TRUE

\* lines 153-155: success = publish_article(data, push=not no_push)
publish_main ==
    /\ call = NoCall
    /\ \E a \in LocalPublishes :
          call' = Call("publish_article", a, <<publish_article(a)>>)
    /\ UNCHANGED systemVars

\* line 156: sys.exit(0 if success else 1)
publish_exit ==
    /\ call.fn = "publish_article"
    /\ Len(call.ret) = 1
    /\ call' = [call EXCEPT !.ret = Append(@, IF call.ret[1] THEN 0 ELSE 1)]
    /\ UNCHANGED systemVars

NextLocalPublisher ==
    \/ publish_main
    \/ publish_exit

SpecLocalPublisher == InitIdle /\ [][NextLocalPublisher]_vars

(***************************************************************************)
(* The button token of a candidate, from make_buttons to the split in      *)
(* handle_callback, for the identifier make_article_id gives a title.      *)
(***************************************************************************)
\* the characters of the titles tokens are made for
TitleChars == {"a", "A", " ", "_", "-", "!"}

\* lines 309-316 (and 166-172, 274-281): the identifier is generated from
\* the title and the buttons are made for it
MakeToken ==
    /\ call = NoCall
    /\ \E title \in SeqsUpTo(TitleChars, MaxTitleLen), action \in Actions :
          LET article_id == make_article_id(title)
          IN  call' = Call("make_buttons",
                           [title |-> title, action |-> action, id |-> article_id],
                           make_buttons(article_id)[action])
    /\ UNCHANGED systemVars

\* lines 182-191: the press of that button arrives and its data is split
SplitToken ==
    /\ call.fn = "make_buttons"
    /\ call' = Call("split", call.arg, Split1(call.ret))
    /\ UNCHANGED systemVars

NextTokens ==
    \/ MakeToken
    \/ SplitToken

SpecTokens == InitIdle /\ [][NextTokens]_vars

(***************************************************************************)
(* process_article: the repair of the fields of a rewriter response        *)
(* (scraper.py lines 308-318), one function call at a time.                *)
(***************************************************************************)
\* line 315: tags[:7]
TagLimit == 7

\* tags of a response: one in capitals, one with whitespace around it
TagWords == { <<"A">>, <<" ", "B", " ">> }

\* the "tags" of a response: a list, or a value that is no list (a string,
\* null), or no such key
UpstreamTags ==
    {[kind |-> "list", items |-> t] : t \in SeqsUpTo(TagWords, MaxTags)}
        \cup {[kind |-> k, items |-> <<>>] : k \in {"str", "null", "absent"}}

\* lines 312-315: result.get("tags", []), the isinstance check, and
\* str(t).lower().strip() of the first seven
TagsUncapped(tags) ==
    IF tags.kind # "list" THEN <<>>
    ELSE [i \in 1..Len(tags.items) |-> Strip(Lower(tags.items[i]))]

ValidTags(tags) ==
    IF tags.kind # "list" THEN <<>>
    ELSE [i \in 1..Len(Take(tags.items, TagLimit)) |-> Strip(Lower(tags.items[i]))]

ValidateTags ==
    /\ call = NoCall
    /\ \E tags \in UpstreamTags : call' = Call("tags", tags, ValidTags(tags))
    /\ UNCHANGED systemVars

(***************************************************************************)
(* _resolve_geo (scraper.py lines 176-218).  The gazetteer is read from a  *)
(* configuration file; the model takes a small one: two known locations    *)
(* whose keys can both occur in one name, a company whose headquarters key *)
(* is missing from the known locations and a company whose key is there.   *)
(* A dict is the sequence of its items in insertion order.                 *)
(***************************************************************************)
\* a location record: name, lat, lon, countryCode
GeoRef(name, lat, lon, countryCode) ==
    [found |-> TRUE, name |-> name, lat |-> lat, lon |-> lon,
     countryCode |-> countryCode]

\* return None
NoGeo == [found |-> FALSE, name |-> <<>>, lat |-> <<>>, lon |-> <<>>,
          countryCode |-> ""]

known_locations ==
    << [key |-> <<"A", "b">>, loc |-> GeoRef(<<"A", "B">>, <<1>>, <<2>>, "AA")],
       [key |-> <<"b">>, loc |-> GeoRef(<<"B">>, <<3>>, <<4>>, "BB")] >>

company_hq ==
    << [company |-> <<"c">>, hq_key |-> <<"e">>],
       [company |-> <<"A">>, hq_key |-> <<"b">>] >>

\* the characters of a guessed name
NameChars == {"a", "B", "c", "t"}

\* a coordinate of a guess: none (no such key, or null), or a number
GuessCoords == {<<>>, <<0>>, <<9>>}

\* the "geo" of a response: null, an empty dict, or a dict with a name and
\* possibly coordinates
GeoGuesses ==
    {[kind |-> k, name |-> <<>>, lat |-> <<>>, lon |-> <<>>, countryCode |-> ""] :
        k \in {"null", "empty", "str"}}
        \cup {[kind |-> "dict", name |-> n, lat |-> lat, lon |-> lon,
                countryCode |-> "ZZ"] :
                 n \in SeqsUpTo(NameChars, MaxNameLen),
                 lat \in GuessCoords, lon \in GuessCoords}

\* sub in s, for strings
Contains(sub, s) ==
    \E i \in 0..(Len(s) - Len(sub)) : SubSeq(s, i + 1, i + Len(sub)) = sub

\* key in known, and known[key], for the known locations
KnownKeys == {known_locations[i].key : i \in DOMAIN known_locations}

KnownLoc(key) ==
    known_locations[CHOOSE i \in DOMAIN known_locations :
                        known_locations[i].key = key].loc

\* the first index of a set of indexes of a dict's items
First(hits) == CHOOSE i \in hits : \A j \in hits : i <= j

\* lines 209-216: the coordinates of the guess, when it has both
GuessFallback(geo_raw) ==
    IF geo_raw.lat # <<>> /\ geo_raw.lon # <<>>
    THEN GeoRef(geo_raw.name, geo_raw.lat, geo_raw.lon, geo_raw.countryCode)
    ELSE NoGeo

ResolveGuessFirst(geo_raw) ==
    IF geo_raw.kind # "dict" THEN NoGeo
    ELSE LET geo_name == Lower(geo_raw.name)
             hits == {i \in DOMAIN known_locations :
                         Contains(Lower(known_locations[i].key), geo_name)}
         IN  IF GuessFallback(geo_raw).found THEN GuessFallback(geo_raw)
             ELSE IF hits # {} THEN known_locations[First(hits)].loc
             ELSE NoGeo

ResolveNoCompany(geo_raw) ==
    IF geo_raw.kind # "dict" THEN NoGeo
    ELSE LET geo_name == Lower(geo_raw.name)
             hits == {i \in DOMAIN known_locations :
                         Contains(Lower(known_locations[i].key), geo_name)}
         IN  IF hits # {} THEN known_locations[First(hits)].loc
             ELSE GuessFallback(geo_raw)

resolve_geo(geo_raw) ==
    IF geo_raw.kind # "dict" THEN NoGeo
    ELSE LET geo_name == Lower(geo_raw.name)
             hits == {i \in DOMAIN known_locations :
                         Contains(Lower(known_locations[i].key), geo_name)}
             hqs == {i \in DOMAIN company_hq :
                        /\ Contains(Lower(company_hq[i].company), geo_name)
                        /\ company_hq[i].hq_key \in KnownKeys}
         IN  IF hits # {} THEN known_locations[First(hits)].loc
             ELSE IF hqs # {} THEN KnownLoc(company_hq[First(hqs)].hq_key)
             ELSE GuessFallback(geo_raw)

ResolveGeo ==
    /\ call = NoCall
    /\ \E geo_raw \in GeoGuesses : call' = Call("geo", geo_raw, resolve_geo(geo_raw))
    /\ UNCHANGED systemVars

(***************************************************************************)
(* SpecRewriter: the repair of one field of one response, for every        *)
(* response of the model.                                                  *)
(***************************************************************************)
NextRewriter ==
    \/ ValidateTags
    \/ ResolveGeo

SpecRewriter == InitIdle /\ [][NextRewriter]_vars

(***************************************************************************)
(* Properties of the review workflow.                                      *)
(***************************************************************************)
\* a step in which handle_callback hands a candidate to the publisher
PublishCalled == upd.pc # "publish" /\ upd'.pc = "publish"

\* a step in which handle_callback resumes with the publisher's outcome
ApproveResumes == upd.pc = "pub_done" /\ upd'.pc = "idle"

C2_FailureKeepsAndTells ==
    [][(ApproveResumes /\ ~upd.result.success) =>
          /\ upd.id \in DOMAIN pending'
          /\ pending' = pending
          /\ published' = published
          /\ notice' = Shown("failed", upd.data)]_vars

\* C3: when the publish of an approve succeeds, the handler leaves the
\* identifier out of the store and the title appended once to the published
\* history; the history changes in no other step, and the identifier stays
\* in the store as long as the publisher has not returned success.
C3_PublishedThenRemoved ==
    [][/\ (ApproveResumes /\ upd.result.success) =>
             /\ upd.id \notin DOMAIN pending'
             /\ published' = Append(published, upd.art.title)
       /\ published' # published => (ApproveResumes /\ upd.result.success)
       /\ (upd.pc \in {"publish", "put", "pub_done"}
             /\ ~(upd.pc = "pub_done" /\ upd.result.success))
          => upd.id \in DOMAIN pending']_vars

\* C3: an approve has ended after a successful publish
C3_ApprovedAndGone ==
    /\ upd.pc = "idle"
    /\ notice.text = "published"
    /\ Len(published) = 1
    /\ Split1(notice.re)[2] \notin DOMAIN pending

\* C8: a reject of a pending candidate removes its identifier from the store,
\* calls no publisher, and leaves the published history, the repository and
\* every other pending candidate as they were.
C8_RejectOnlyRemoves ==
    [][\A data \in Presses :
          (/\ Split1(data)[1] = <<"reject">>
           /\ Split1(data)[2] \in DOMAIN pending
           /\ handle_callback(Reviewer, data))
          => /\ Split1(data)[2] \notin DOMAIN pending'
             /\ \A id \in DOMAIN pending \ {Split1(data)[2]} :
                   id \in DOMAIN pending' /\ pending'[id] = pending[id]
             /\ DOMAIN pending' \subseteq DOMAIN pending
             /\ published' = published
             /\ repo' = repo
             /\ upd' = upd
             /\ attempted' = attempted]_vars

\* C8: a candidate has been rejected while another one was pending
C8_RejectedOneOfTwo ==
    /\ notice.text = "rejected"
    /\ Split1(notice.re)[2] \notin DOMAIN pending
    /\ DOMAIN pending # {}
    /\ attempted = {}

\* the candidate the reviewer's edit session names, while it is pending
EditOpen == Reviewer \in DOMAIN editing /\ editing[Reviewer] \in DOMAIN pending

\* the store entry a completed title edit has to leave under new_id
Retitled(old_id, new_id, text) ==
    /\ new_id \in DOMAIN pending'
    /\ pending'[new_id] = [pending[old_id] EXCEPT !.title = Strip(text),
                                                  !.id = new_id]

\* C9, as stated: after a completed title edit the store holds the candidate
\* under the identifier recomputed from the new title, the old identifier's
\* entry is gone, and every field but title and identifier is as before.
C9_OldIdGone ==
    [][\A text \in Titles :
          (EditOpen /\ handle_message(Reviewer, text))
          => /\ Retitled(editing[Reviewer], make_article_id(Strip(text)), text)
             /\ editing[Reviewer] \notin DOMAIN pending']_vars

\* C9, amended: after a completed title edit the store holds the candidate
\* under the identifier recomputed from the new title, with every field but
\* title and identifier as before; the old identifier's entry is gone when
\* the recomputed identifier differs from it, and is that entry otherwise.
C9_Rekeyed ==
    [][\A text \in Titles :
          (EditOpen /\ handle_message(Reviewer, text))
          => /\ Retitled(editing[Reviewer], make_article_id(Strip(text)), text)
             /\ make_article_id(Strip(text)) # editing[Reviewer]
                => editing[Reviewer] \notin DOMAIN pending']_vars

\* C9: a title edit has moved a candidate of the feeds to another identifier
C9_MovedToNewId ==
    /\ notice.text = "retitled"
    /\ \E id \in DOMAIN pending :
          /\ pending[id].link \in Links
          /\ pending[id].title = Strip(notice.re)
          /\ id = make_article_id(pending[id].title)
          /\ id # make_article_id(RewriteTitle[pending[id].link])
          /\ make_article_id(RewriteTitle[pending[id].link]) \notin DOMAIN pending

\* C10: a publish to a path that holds a document reads that document's
\* token (whenever the existence check answers 200 the request carries it),
\* succeeds only with it, replaces the document in place without adding a
\* path, and is reported as an update.
C10_UpdateInPlace ==
    [][(upd.pc = "put" /\ upd'.pc = "pub_done") =>
          /\ upd.got = 200 => upd.sha = Sha(repo[upd.path])
          /\ (upd'.result.success /\ upd.path \in DOMAIN repo) =>
                /\ upd.sha = Sha(repo[upd.path])
                /\ upd'.result.message = "Updated"
                /\ DOMAIN repo' = DOMAIN repo
                /\ repo'[upd.path] = generate_mdx(upd.payload)
          /\ (upd'.result.success /\ upd.path \notin DOMAIN repo) =>
                upd'.result.message = "Published"]_vars

\* C10: the publisher has returned from a second publish to the same path
C10_SecondPublish ==
    /\ upd.pc = "pub_done"
    /\ upd.result.success
    /\ upd.result.message = "Updated"
    /\ Cardinality(succeeded) = 2
    /\ Cardinality(DOMAIN repo) = 1

\* C11: an approve and a title edit of the same candidate never interleave
\* inside the store: while an approve is in flight its identifier stays in
\* the store, so line 228 never meets a missing entry (handle_message looks
\* the entry up with pending.get), and when no handler is running no
\* candidate whose publish succeeded is in the store under any identifier.
C11_CriticalSection ==
    /\ upd.pc \in {"publish", "put", "pub_done"} => upd.id \in DOMAIN pending
    /\ upd.pc = "idle" =>
          \A id \in DOMAIN pending : pending[id].cid \notin succeeded

\* C11: an edit session was opened on a candidate, its approve succeeded,
\* and the message of the edit was handled after it
C11_EditMeetsApprove ==
    /\ upd.pc = "idle"
    /\ notice.text = "gone"
    /\ pending = <<>>
    /\ \E l \in left : l.by = "approve" /\ l.cid \in succeeded

\* the candidates (by identity) a store holds
CidsIn(store) == {store[id].cid : id \in DOMAIN store}

\* C12: published and rejected are terminal: a candidate that a successful
\* approve or a reject took out of the store is never in the store again,
\* whatever presses and messages follow, and the publisher is never called
\* for it again.
C12_Terminal ==
    [][/\ \A l \in left' : l.cid \notin CidsIn(pending')
       /\ PublishCalled => \A l \in left : upd'.art.cid # l.cid]_vars

\* C12: a press carrying the identifier of a candidate that was approved or
\* rejected has been handled, and no candidate holds that identifier
C12_PressAfterTerminal ==
    /\ upd.pc = "idle"
    /\ notice.text = "stale"
    /\ \E l \in left : l.id = Split1(notice.re)[2]

\* a step in which the reviewer's reject of candidate c is handled
RejectOf(c) ==
    \E data \in Presses :
       /\ Split1(data)[1] = <<"reject">>
       /\ Split1(data)[2] \in DOMAIN pending
       /\ pending[Split1(data)[2]].cid = c
       /\ handle_callback(Reviewer, data)

\* C13, as stated: a candidate leaves the store only by its own successful
\* approve or its own reject; inserting candidates and retitling other
\* candidates never removes or overwrites it, also when identifiers coincide.
C13_OnlyApproveOrRejectRemoves ==
    [][\A c \in CidsIn(pending) \ CidsIn(pending') :
          \/ ApproveResumes /\ upd.result.success /\ upd.art.cid = c
          \/ RejectOf(c)]_vars

C15_StalePressIsNoOp ==
    [][\A data \in Presses :
          (Split1(data)[2] \notin DOMAIN pending /\ handle_callback(Reviewer, data))
          => /\ notice' = Shown("stale", data)
             /\ pending' = pending
             /\ published' = published
             /\ editing' = editing
             /\ upd' = upd
             /\ attempted' = attempted
             /\ repo' = repo]_vars

\* C15: an edit press for an identifier that is not stored was answered
\* while a candidate was pending, and no session is open
C15_StaleEditPress ==
    /\ notice.text = "stale"
    /\ Split1(notice.re)[1] = <<"edit">>
    /\ pending # <<>>
    /\ editing = <<>>

\* a step in which the reviewer's edit press for a stored identifier is handled
EditPressOf(article_id) ==
    /\ article_id \in DOMAIN pending
    /\ handle_callback(Reviewer, make_buttons(article_id)["edit"])

C17_HandlesWhileInFlight ==
    (upd.pc # "idle" /\ queue # <<>>) => ENABLED TakeUpdate

\* C24: the publisher never changes a stored candidate: its steps leave the
\* store as it is, the handler that resumes with its result removes at most
\* the approved entry and changes no other, and for as long as the approve
\* is in flight the candidate under the pressed identifier has every field
\* as it was at the press, whatever the publisher made of the payload.
C24_PublisherLeavesStore ==
    [][/\ (upd.pc \in {"publish", "put"} /\ upd' # upd) => pending' = pending
       /\ (upd.pc = "pub_done" /\ upd' # upd) =>
             /\ DOMAIN pending' \subseteq DOMAIN pending
             /\ \A id \in DOMAIN pending' : pending'[id] = pending[id]
             /\ ~upd.result.success => pending' = pending
       /\ (/\ upd'.pc \in {"publish", "put", "pub_done"}
           /\ upd'.id \in DOMAIN pending'
           /\ pending'[upd'.id].cid = upd'.art.cid) =>
             pending'[upd'.id] = upd'.art]_vars

\* a publish failed after the publisher had sanitised the identifier in its
\* payload, and the stored candidate is as it was at the press
C24_PayloadSanitisedStoreIntact ==
    /\ upd.pc = "pub_done"
    /\ ~upd.result.success
    /\ upd.payload.id # upd.id
    /\ upd.id \in DOMAIN pending
    /\ pending[upd.id] = upd.art

\* the category of the article the publisher was called with is absent or
\* outside the fixed set
OddCategory == call.arg.category \notin VALID_CATEGORIES

\* C25: every path the publisher reads or writes has a category segment of
\* the fixed set, a stored document records the category of its path, and a
\* publish of an article whose category is absent or outside the set goes on
\* to its requests under "technology": it does not end on the missing key.
C25_PathUnderFixedCategory ==
    /\ \A path \in DOMAIN repo :
          path[2] \in VALID_CATEGORIES /\ repo[path].category = path[2]
    /\ upd.pc = "put" => upd.path[2] \in VALID_CATEGORIES
    /\ (call.fn = "publish_to_github" /\ OddCategory) =>
          /\ upd.pc = "put" => upd.path[2] = "technology"
          /\ upd.pc = "pub_done" => upd.result # RaisedKeyError

\* C26: nothing retries a publish.  The publisher is entered only by an
\* approve press handled by an idle dispatcher, a call makes at most one
\* create-or-update request, and once the request is made the call goes to
\* its end and the handler back to idle, whether the request succeeded or
\* not: a further write request takes a further approve press.
C26_NoRetry ==
    [][/\ upd'.puts <= 1
       /\ upd'.puts > upd.puts => (upd.pc = "put" /\ upd'.pc = "pub_done")
       /\ PublishCalled =>
             /\ upd.pc = "idle"
             /\ upd'.puts = 0
             /\ notice' = Shown("publishing", upd'.data)
             /\ Split1(upd'.data)[1] = <<"approve">>
       /\ (upd.pc = "pub_done" /\ upd' # upd) => upd'.pc = "idle"
       /\ upd'.pc = "put" => upd.pc \in {"publish", "put"}]_vars

\* a publish failed on its one write request; the handler has ended, the
\* candidate is pending and nothing is in flight for it
C26_FailedOnceAndIdle ==
    /\ upd.pc = "idle"
    /\ notice.text = "failed"
    /\ \E id \in DOMAIN pending :
          /\ pending[id].cid \in attempted \ succeeded
          /\ notice.re = make_buttons(id)["approve"]

\* C27: without the credentials or the repository name a publish is skipped
\* for that call: the publisher returns a failure result with an empty URL
\* without raising, sends neither the read nor the write request, leaves
\* its article and the repository as they are, and the handler that resumes
\* tells the failure and keeps the candidate in the pending store.
C27_SkippedWithoutCredentials ==
    [][~githubConfigured =>
          /\ (upd.pc = "publish" /\ upd' # upd) =>
                /\ upd'.pc = "pub_done"
                /\ upd'.result =
                      [raised |-> FALSE, success |-> FALSE, message |-> "not set",
                       url |-> ""]
                /\ upd'.payload = upd.payload
                /\ pending' = pending
          /\ upd'.gets = 0 /\ upd'.puts = 0 /\ upd'.pc # "put"
          /\ repo' = repo
          /\ ApproveResumes =>
                /\ pending' = pending
                /\ upd.id \in DOMAIN pending'
                /\ pending'[upd.id] = upd.art
                /\ notice' = Shown("failed", upd.data)]_vars

\* an approve was handled to its end without credentials: the failure is
\* shown and the candidate is still pending
C27_SkippedAndPending ==
    /\ ~githubConfigured
    /\ upd.pc = "idle"
    /\ notice.text = "failed"
    /\ \E id \in DOMAIN pending :
          /\ pending[id].cid \in attempted
          /\ notice.re = make_buttons(id)["approve"]

(***************************************************************************)
(* Properties of ingestion.                                                *)
(***************************************************************************)
\* C4: a run of scrape_feeds emits no entry whose link is in the seen set it
\* loaded at its start.
C4_NoSeenLinkEmitted ==
    \A r \in Runs : LinksOf(run[r].entries) \cap run[r].loaded = {}

\* C4: a run has emitted an entry and skipped a link of its loaded seen set
C4_SeenLinkSkipped ==
    \E r \in Runs :
       /\ run[r].pc = "save"
       /\ run[r].entries # <<>>
       /\ run[r].skipped \cap run[r].loaded # {}

\* C5: the entries one run of scrape_feeds emits have pairwise distinct links.
C5_DistinctLinks ==
    \A r \in Runs :
       \A i, j \in 1..Len(run[r].entries) :
          i # j => run[r].entries[i].link # run[r].entries[j].link

\* C5: a run has met again, and skipped, a link it had emitted itself
C5_RepeatedLinkSkipped ==
    \E r \in Runs :
       /\ run[r].pc = "save"
       /\ (run[r].skipped \ run[r].loaded) \cap LinksOf(run[r].entries) # {}

\* C6, as stated: the persisted seen set only grows: whenever no save is
\* under way, what load_seen reads holds every link a saved file ever held,
\* also when the scheduled run and a /scrape run overlap.
C6_SeenOnlyGrows ==
    (\A r \in Runs : run[r].pc # "dump") => everSeen \subseteq load_seen

\* C7, as stated: over the life of the system a link is emitted as a new
\* entry by at most one ingestion run, also when runs overlap.
C7_EmittedByOneRun ==
    \A l \in Links : Cardinality(emitted[l]) <= 1

Rewritten(r) ==
    {i \in DOMAIN run'[r].outcome : RewriteOk(run'[r].outcome[i], run'[r].resp[i])}

\* C19: get_candidates asks for the rewrite of every entry, whatever became
\* of the entries before it, and returns one candidate for each entry whose
\* rewrite succeeded and none for the others, in the order of the entries.
C19_FailedRewriteDropsOnlyThatEntry ==
    [][\A r \in Runs :
          (run[r].pc = "rewrite" /\ run'[r].pc # "rewrite") =>
              /\ Len(run'[r].outcome) = Len(run[r].entries)
              /\ Len(run'[r].cands) = Cardinality(Rewritten(r))
              /\ \A i \in Rewritten(r) :
                    LET j == Cardinality({x \in Rewritten(r) : x <= i})
                    IN  /\ run'[r].cands[j].link = run[r].entries[i].link
                        /\ run'[r].cands[j].title = RewriteTitle[run[r].entries[i].link]]_vars

\* the rewrite of the first of two entries failed and the second entry came
\* back as the only candidate
C19_SecondEntryAfterFailure ==
    \E r \in Runs :
        /\ Len(run[r].outcome) = 2
        /\ ~run[r].outcome[1]
        /\ run[r].outcome[2]
        /\ Len(run[r].cands) = 1
        /\ run[r].pc = "present"

\* C20: every candidate the rewriter returns carries one of the seven fixed
\* categories: a known category of the response in lower case, and
\* "technology" when the response has no category or one outside the set.
C20_CategoryInFixedSet ==
    [][\A r \in Runs :
          /\ \A j \in DOMAIN run'[r].cands :
                run'[r].cands[j].category \in VALID_CATEGORIES
          /\ (run[r].pc = "rewrite" /\ run'[r].pc # "rewrite") =>
                \A i \in Rewritten(r) :
                    LET j == Cardinality({x \in Rewritten(r) : x <= i})
                        raw == run'[r].resp[i]
                    IN  run'[r].cands[j].category =
                            IF raw \in {"ai", "AI"} THEN "ai" ELSE "technology"]_vars

\* two candidates came back, one from a response with an unknown category
\* and one from a response without category, both as "technology"
C20_UnknownAndAbsentDefaulted ==
    \E r \in Runs :
        /\ Len(run[r].cands) = 2
        /\ run[r].resp = <<"sports", AbsentCategory>>
        /\ run[r].outcome = <<TRUE, TRUE>>
        /\ run[r].cands[1].category = "technology"
        /\ run[r].cands[2].category = "technology"

\* C29: when run_scrape ends, every candidate get_candidates returned to it
\* has been put into the pending store (has passed line 311), whatever
\* became of the messages sent for the batch.
C29_WholeBatchStored ==
    \A r \in Runs :
        run[r].pc = "done" =>
            \A j \in DOMAIN run[r].cands : j < run[r].k

\* the number of times get_candidates has handed an entry with this link to
\* process_article: the runs that emitted the link, less those that still
\* hold its entry for their rewrite
RewriteAttempts(l) ==
    Cardinality(emitted[l])
        - Cardinality({r \in Runs : l \in LinksOf(run[r].entries)})

\* C30: a link is in the saved seen set before its entry is rewritten, so
\* no entry gets a second rewrite attempt, its rewrite having failed: over
\* all runs a link is handed to the rewriter once at most.
C30_OneRewriteAttempt ==
    \A l \in Links : RewriteAttempts(l) <= 1

(***************************************************************************)
(* Properties of the rewriter's field repair.                              *)
(***************************************************************************)
\* the smaller of two numbers
Min(a, b) == IF a < b THEN a ELSE b

\* C21, as stated: the candidate's tags are the first min(n, 7) upstream
\* tags in their order, each lowercased and otherwise as it came; a tags
\* value that is no list gives no tags.
C21_TagsLowercasedOnly ==
    call.fn = "tags" =>
        /\ call.arg.kind # "list" => call.ret = <<>>
        /\ call.arg.kind = "list" =>
              /\ Len(call.ret) = Min(Len(call.arg.items), TagLimit)
              /\ \A i \in 1..Len(call.ret) :
                    call.ret[i] = IF call.arg.items[i] = <<"A">> THEN <<"a">>
                                  ELSE <<" ", "b", " ">>

\* C21, amended: the candidate's tags are the first min(n, 7) upstream tags
\* in their order, each lowercased and stripped of the whitespace around
\* it; a tags value that is no list gives no tags.
C21_TagsCappedLoweredStripped ==
    call.fn = "tags" =>
        /\ call.arg.kind # "list" => call.ret = <<>>
        /\ call.arg.kind = "list" =>
              /\ Len(call.ret) = Min(Len(call.arg.items), TagLimit)
              /\ \A i \in 1..Len(call.ret) :
                    call.ret[i] = IF call.arg.items[i] = <<"A">> THEN <<"a">>
                                  ELSE <<"b">>

\* eight tags came, in capitals and one with whitespace, and seven went
\* into the candidate
C21_EightTagsGiveSeven ==
    /\ call.fn = "tags"
    /\ call.arg.kind = "list"
    /\ Len(call.arg.items) = 8
    /\ call.arg.items[2] = <<" ", "B", " ">>
    /\ Len(call.ret) = 7
    /\ call.ret[2] = <<"b">>

\* the name of the guess under study contains the word, whatever the case
GuessNames(word) == Contains(word, Lower(call.arg.name))

\* C22: a guess whose name contains the key of a known location, whatever
\* the case of either, resolves to the name, latitude, longitude and country
\* code recorded for that location (for the first such key of the table when
\* the name contains several), and never to the coordinates of the guess.
C22_KnownLocationIsCanonical ==
    (call.fn = "geo" /\ call.arg.kind = "dict") =>
        /\ GuessNames(<<"a", "b">>) =>
              call.ret = GeoRef(<<"A", "B">>, <<1>>, <<2>>, "AA")
        /\ (GuessNames(<<"b">>) /\ ~GuessNames(<<"a", "b">>)) =>
              call.ret = GeoRef(<<"B">>, <<3>>, <<4>>, "BB")
        /\ GuessNames(<<"b">>) =>
              /\ call.ret.found
              /\ call.ret.lat \notin GuessCoords
              /\ call.ret.lon \notin GuessCoords

\* a guess with coordinates of its own and a name that contains both keys
\* came back as the first known location
C22_GuessCoordsReplaced ==
    /\ call.fn = "geo"
    /\ call.arg.name = <<"a", "B">>
    /\ call.arg.lat = <<9>>
    /\ call.arg.lon = <<0>>
    /\ call.ret = GeoRef(<<"A", "B">>, <<1>>, <<2>>, "AA")

Pushing == call.arg.push /\ call.arg.auto

\* C28: publish_article returns True only when the publication succeeded,
\* and False whenever the add-article script fails or, with pushing
\* enabled, the git commit or the git push fails.
C28_TrueOnlyOnSuccess ==
    call.fn = "publish_article" =>
        /\ call.ret[1] =>
              /\ call.arg.dir
              /\ call.arg.script = "ok"
              /\ Pushing => (call.arg.commit = "ok" /\ call.arg.gitpush = "ok")
        /\ (call.arg.dir /\ call.arg.script # "ok") => ~call.ret[1]
        /\ (call.arg.dir /\ call.arg.script = "ok" /\ Pushing
             /\ (call.arg.commit # "ok" \/ call.arg.gitpush # "ok")) => ~call.ret[1]

(***************************************************************************)
(* Properties of the button tokens.                                        *)
(***************************************************************************)
\* C31: for every action and every generated identifier, the split of the
\* token "action_identifier" at its first underscore gives two parts, that
\* action and that identifier, and the identifier holds no underscore.
C31_TokenRoundTrip ==
    call.fn = "split" =>
        /\ Len(call.ret) = 2
        /\ call.ret[1] = <<call.arg.action>>
        /\ call.ret[2] = call.arg.id
        /\ \A i \in 1..Len(call.arg.id) : call.arg.id[i] # "_"

\* the token of a title with an underscore in it was split into its action
\* and an identifier that has a hyphen in the underscore's place
C31_UnderscoreTitleSplit ==
    /\ call.fn = "split"
    /\ call.arg.title = <<"a", "_", "A">>
    /\ call.arg.action = "edit"
    /\ call.ret = << <<"edit">>, DateStr \o <<"-", "a", "-", "a">> >>

====
